---- MODULE Spec2Model ----
(***************************************************************************)
(* FocusTimer (src/script.js): the requestAnimationFrame countdown, its    *)
(* controls (start, pause, toggle, reset, setMode), the settings form and  *)
(* the persisted configuration.                                            *)
(*                                                                         *)
(* Time is in milliseconds, as performance.now() and the rAF timestamp     *)
(* give it; timeLeft and totalTime are in seconds, config in minutes.      *)
(***************************************************************************)
EXTENDS Integers, Sequences, FiniteSets, TLC

\* ------------------------------------------------------------------ bounds
\* Wall-clock time passes in these steps: a sub-second step and a whole second
\* (three sub-second steps pass a second and leave a remainder).
TimeSteps == {400, 1000}
\* The clock may advance this far in ordinary steps.
MaxClock == 1400
\* A suspended (backgrounded, throttled) tab delivers no frame for this long.
SuspendMs == 60000
\* How often the tab may be suspended.
MaxSuspends == 1
\* Session tracking is followed over this many minutes, a minute at a time.
MaxSessionMinutes == 7
\* A countdown left alone is followed in steps of this many milliseconds,
LiveStep == 20000
\* up to this value of performance.now().
MaxLiveClock == 80000
\* The interval ticks of the older App are followed this far below zero.
MaxUnderrun == 2

\* ------------------------------------------------------- program constants
\* JavaScript null (state.animFrameId, state.lastTick).
NULL == -1

Fields == {"pomodoro", "shortBreak", "longBreak"}

DEFAULTS == [pomodoro |-> 25, shortBreak |-> 5, longBreak |-> 15]

LIMITS ==
    [pomodoro   |-> [min |-> 1, max |-> 120],
     shortBreak |-> [min |-> 1, max |-> 60],
     longBreak  |-> [min |-> 1, max |-> 60]]

\* ------------------------------------------------------------ environment
\* What the user can have typed into a duration field of the settings form.
RawInputs ==
    { <<>>,                  \* empty field
      <<"0">>,               \* below the minimum
      <<"1">>,
      <<"1", ".", "9">>,     \* parseInt stops at the point
      <<"-", "1">>,
      <<"a", "b">>,          \* not a number
      <<"6", "1">>,          \* inside the focus range, above the break maximum
      <<"1", "2", "0">>,     \* the focus maximum
      <<"9", "9", "9">> }    \* above every maximum

\* The settings forms the user submits: the focus, short-break and long-break
\* fields as typed.
SettingsForms ==
    { << <<"1">>, <<"1">>, <<"1">> >>,
      << <<"9", "9", "9">>, <<"0">>, <<"1", ".", "9">> >> }

\* What localStorage can hold under STORAGE_KEY when the page loads: nothing,
\* text that is not JSON, or a JSON object with some of the duration fields.
\* "blocked" is a browser that refuses access to localStorage: reading throws.
StoreContents ==
    { [kind |-> "absent",  fields |-> <<>>],
      [kind |-> "corrupt", fields |-> <<>>],
      [kind |-> "blocked", fields |-> <<>>],
      [kind |-> "object",  fields |-> [pomodoro |-> -1, shortBreak |-> 0, longBreak |-> 200]] }

\* KeyboardEvent.code of the keys the user presses: the six shortcuts and a
\* key that is bound to nothing.
KeyCodes == {"Space", "KeyR", "Digit1", "Digit2", "Digit3", "Escape", "KeyT"}

\* Whether localStorage.setItem succeeds in this browser session (it throws
\* when the quota is exhausted or the browser forbids writing).
WritableStorage == {TRUE}

VARIABLES
    config,       \* this.config: minutes per mode
    state,        \* this.state
    status,       \* dom.status.textContent
    pending,      \* frame callbacks requested and neither run nor cancelled
    modalHidden,  \* dom.modal has class "hidden"
    store,        \* localStorage[STORAGE_KEY]
    writable,     \* localStorage.setItem succeeds
    phase,        \* "constructed", "ready" (init() returned), "aborted" (init() threw)
    clock,        \* performance.now()
    suspends,     \* suspensions so far
    lastOp,       \* history: the operation that ran last (for a key event that
                  \* called none: how the key handler returned)
    t0,           \* history: performance.now() at the last start() that took effect
    startLeft,    \* history: timeLeft at that start()
    lastNow,      \* history: timestamp of the latest frame since that start(), or NULL
    runMs,        \* history: milliseconds spent running since the last reset()
    credit,       \* history: whole seconds of the ended running intervals since the last reset()
    observed,     \* history: since the last reset(), every running interval ended on a frame
                  \* that had seen all of its time
    submitted,    \* history: the duration fields as typed, at the last save-settings click
    completedCycles,  \* focus countdowns completed (session tracking)
    autoAdvance,  \* the auto-start-breaks option
    completions,  \* history: runs of _complete() since the last reset()
    app           \* the older App object (setInterval version) and its interval timers

vars ==
    <<config, state, status, pending, modalHidden, store, writable, phase, clock,
      suspends, lastOp, t0, startLeft, lastNow, runMs, credit, observed, completions, submitted,
      completedCycles, autoAdvance, app>>

\* The object the methods work on: the fields of `this` and the frame queue.
This == [config |-> config, state |-> state, status |-> status, pending |-> pending]

\* --------------------------------------------------------------- helpers
Max(a, b) == IF a >= b THEN a ELSE b

\* Number(x) for a timestamp field: null converts to 0.
ToNumber(x) == IF x = NULL THEN 0 ELSE x

DigitChars == <<"0", "1", "2", "3", "4", "5", "6", "7", "8", "9">>

IsDigit(c) == \E i \in 1..10 : DigitChars[i] = c

DigitValue(c) == (CHOOSE i \in 1..10 : DigitChars[i] = c) - 1

RECURSIVE SkipSpaces(_)
SkipSpaces(s) == IF s # <<>> /\ Head(s) = " " THEN SkipSpaces(Tail(s)) ELSE s

RECURSIVE DigitPrefix(_)
DigitPrefix(s) ==
    IF s # <<>> /\ IsDigit(Head(s)) THEN <<Head(s)>> \o DigitPrefix(Tail(s)) ELSE <<>>

RECURSIVE DigitsValue(_, _)
DigitsValue(s, acc) ==
    IF s = <<>> THEN acc ELSE DigitsValue(Tail(s), acc * 10 + DigitValue(Head(s)))

\* parseInt(value, 10): leading blanks, an optional sign, then the longest run
\* of digits; NaN when there is no digit.
parseInt(value) ==
    LET s      == SkipSpaces(value)
        signed == s # <<>> /\ Head(s) \in {"-", "+"}
        body   == IF signed THEN Tail(s) ELSE s
        digits == DigitPrefix(body)
        sign   == IF signed /\ Head(s) = "-" THEN -1 ELSE 1
    IN  IF digits = <<>>
        THEN [isNaN |-> TRUE, num |-> 0]
        ELSE [isNaN |-> FALSE, num |-> sign * DigitsValue(digits, 0)]

\* Mutant of _clamp: only a missing number is replaced, the range is not applied.
_clampUnchecked(value, limits, fallback) ==
    LET p == parseInt(value)
    IN  IF p.isNaN \/ p.num = 0 THEN fallback ELSE p.num

_clamp(value, limits, fallback) ==
    LET p == parseInt(value)
    IN  IF p.isNaN \/ p.num < limits.min THEN fallback
        ELSE IF p.num > limits.max THEN limits.max
        ELSE p.num

\* { ...DEFAULTS, ...parsed }
Spread(parsed) ==
    [f \in Fields |-> IF f \in DOMAIN parsed THEN parsed[f] ELSE DEFAULTS[f]]

\* _loadConfig: the configuration after reading the store.
_loadConfig(cfg, st) ==
    IF st.kind = "object" THEN Spread(st.fields)
    ELSE IF st.kind = "corrupt" THEN DEFAULTS
    ELSE cfg

\* Mutant of _saveConfig: one invalid field puts the whole configuration back
\* to the defaults.
_saveConfigWholeFallback(rp, rs, rl) ==
    IF \/ parseInt(rp).isNaN \/ parseInt(rp).num < LIMITS.pomodoro.min
       \/ parseInt(rs).isNaN \/ parseInt(rs).num < LIMITS.shortBreak.min
       \/ parseInt(rl).isNaN \/ parseInt(rl).num < LIMITS.longBreak.min
    THEN DEFAULTS
    ELSE [pomodoro   |-> _clamp(rp, LIMITS.pomodoro,   DEFAULTS.pomodoro),
          shortBreak |-> _clamp(rs, LIMITS.shortBreak, DEFAULTS.shortBreak),
          longBreak  |-> _clamp(rl, LIMITS.longBreak,  DEFAULTS.longBreak)]

\* _saveConfig: the three duration fields, each clamped on its own.
_saveConfig(rp, rs, rl) ==
    [pomodoro   |-> _clamp(rp, LIMITS.pomodoro,   DEFAULTS.pomodoro),
     shortBreak |-> _clamp(rs, LIMITS.shortBreak, DEFAULTS.shortBreak),
     longBreak  |-> _clamp(rl, LIMITS.longBreak,  DEFAULTS.longBreak)]

\* requestAnimationFrame returns a handle no pending callback has; handles
\* are positive, so a handle is truthy and null is not.
NewHandle(q) == CHOOSE h \in 1..(Cardinality(q) + 1) : h \notin q

requestAnimationFrame(a) ==
    LET h == NewHandle(a.pending)
    IN  [a EXCEPT !.pending = @ \cup {h}, !.state.animFrameId = h]

\* Mutant of pause: the tick anchor is kept.
pauseKeepingAnchor(a) ==
    LET q  == IF a.state.animFrameId # NULL
              THEN a.pending \ {a.state.animFrameId}
              ELSE a.pending
        s  == [a.state EXCEPT !.isRunning = FALSE, !.animFrameId = NULL]
    IN  [a EXCEPT !.state = s,
                  !.pending = q,
                  !.status = IF s.timeLeft > 0 /\ s.timeLeft < s.totalTime
                             THEN "PAUSED" ELSE @]

\* Mutant of pause: the pending frame callback is not cancelled.
pauseWithoutCancel(a) ==
    [a EXCEPT !.state.isRunning = FALSE,
              !.state.animFrameId = NULL,
              !.state.lastTick = NULL,
              !.status = IF a.state.timeLeft > 0 /\ a.state.timeLeft < a.state.totalTime
                         THEN "PAUSED" ELSE @]

pause(a) ==
    LET q  == IF a.state.animFrameId # NULL
              THEN a.pending \ {a.state.animFrameId}
              ELSE a.pending
        s  == [a.state EXCEPT !.isRunning = FALSE, !.animFrameId = NULL, !.lastTick = NULL]
    IN  [a EXCEPT !.state = s,
                  !.pending = q,
                  !.status = IF s.timeLeft > 0 /\ s.timeLeft < s.totalTime
                             THEN "PAUSED" ELSE @]

\* Mutant of reset: the running timer is not paused first.
resetWithoutPause(a) ==
    [a EXCEPT !.state.totalTime = a.config[a.state.mode] * 60,
              !.state.timeLeft = a.config[a.state.mode] * 60,
              !.status = "READY"]

reset(a) ==
    LET b     == pause(a)
        total == b.config[b.state.mode] * 60
    IN  [b EXCEPT !.state.totalTime = total,
                  !.state.timeLeft = total,
                  !.status = "READY"]

\* Mutant of startIsNoOp: start() has no guard.
startNeverNoOp(a) == FALSE

\* start() returns at once when a frame callback is pending.
startIsNoOp(a) == a.state.animFrameId # NULL

\* Mutant of start: the anchor is not recorded, lastTick stays as pause left it.
startWithoutAnchor(a, now) ==
    IF startIsNoOp(a) THEN a
    ELSE requestAnimationFrame(
             [a EXCEPT !.state.isRunning = TRUE,
                       !.status = "RUNNING"])

start(a, now) ==
    IF startIsNoOp(a) THEN a
    ELSE requestAnimationFrame(
             [a EXCEPT !.state.isRunning = TRUE,
                       !.state.lastTick = now,
                       !.status = "RUNNING"])

toggle(a, now) == IF a.state.isRunning THEN pause(a) ELSE start(a, now)

\* Mutant of setMode: the mode is switched but the countdown is not reset.
setModeWithoutReset(a, mode) ==
    IF a.state.mode = mode THEN a
    ELSE [a EXCEPT !.state.mode = mode]

setMode(a, mode) ==
    IF a.state.mode = mode THEN a
    ELSE reset([a EXCEPT !.state.mode = mode])

\* The switch of _handleKeyboard: the object after the shortcut's method ran,
\* the method called, and whether that call ran reset().
shortcut(a, code, now) ==
    CASE code = "Space" ->
           [app |-> toggle(a, now), called |-> "toggle", isReset |-> FALSE]
      [] code = "KeyR" ->
           [app |-> reset(a), called |-> "reset", isReset |-> TRUE]
      [] code = "Digit1" ->
           [app |-> setMode(a, "pomodoro"), called |-> "setMode",
            isReset |-> a.state.mode # "pomodoro"]
      [] code = "Digit2" ->
           [app |-> setMode(a, "shortBreak"), called |-> "setMode",
            isReset |-> a.state.mode # "shortBreak"]
      [] code = "Digit3" ->
           [app |-> setMode(a, "longBreak"), called |-> "setMode",
            isReset |-> a.state.mode # "longBreak"]
      [] OTHER ->
           [app |-> a, called |-> "keyUnbound", isReset |-> FALSE]

\* Mutant of _handleKeyboard: a focused input element does not disable the
\* shortcuts, only the open modal does.
_handleKeyboardWhileTyping(a, hidden, code, isTyping, now) ==
    IF code = "Escape" /\ ~hidden
    THEN [app |-> a, hidden |-> TRUE, called |-> "keyEscape", isReset |-> FALSE]
    ELSE IF ~hidden
    THEN [app |-> a, hidden |-> hidden, called |-> "keyIgnored", isReset |-> FALSE]
    ELSE [app     |-> shortcut(a, code, now).app,
          hidden  |-> hidden,
          called  |-> shortcut(a, code, now).called,
          isReset |-> shortcut(a, code, now).isReset]

\* _handleKeyboard: the object and the modal after the key event, the method
\* the handler called (or how it returned without calling one), and whether
\* that call ran reset().
_handleKeyboard(a, hidden, code, isTyping, now) ==
    IF code = "Escape" /\ ~hidden
    THEN [app |-> a, hidden |-> TRUE, called |-> "keyEscape", isReset |-> FALSE]
    ELSE IF ~hidden \/ isTyping
    THEN [app |-> a, hidden |-> hidden, called |-> "keyIgnored", isReset |-> FALSE]
    ELSE [app     |-> shortcut(a, code, now).app,
          hidden  |-> hidden,
          called  |-> shortcut(a, code, now).called,
          isReset |-> shortcut(a, code, now).isReset]

\* Mutant of _complete: the loop is left running.
_completeWithoutPause(a) == [a EXCEPT !.status = "COMPLETED"]

_complete(a) == [pause(a) EXCEPT !.status = "COMPLETED"]

\* Mutant of secondsPassed: Math.round in place of Math.floor.
secondsPassedRounded(elapsed) == (elapsed + 500) \div 1000

\* Mutant of secondsPassed: one second per callback, however late it is.
secondsPassedOne(elapsed) == 1

secondsPassed(elapsed) == elapsed \div 1000

\* Mutant of advanceAnchor: the anchor snaps to the frame timestamp.
advanceAnchorToNow(lastTick, seconds, now) == now

advanceAnchor(lastTick, seconds, now) == ToNumber(lastTick) + seconds * 1000

\* Mutant of tick: a callback that finds less than a second elapsed does not
\* schedule the next one.
tickWithoutReschedule(a, now) ==
    LET elapsed == now - ToNumber(a.state.lastTick)
    IN  IF elapsed >= 1000
        THEN LET n == secondsPassed(elapsed)
                 b == [a EXCEPT !.state.timeLeft = Max(0, @ - n),
                                !.state.lastTick = advanceAnchor(@, n, now)]
             IN  IF b.state.timeLeft <= 0 THEN _complete(b)
                 ELSE requestAnimationFrame(b)
        ELSE a

\* Mutant of tick: the batch deduction is not clamped at zero.
tickUnclamped(a, now) ==
    LET elapsed == now - ToNumber(a.state.lastTick)
    IN  IF elapsed >= 1000
        THEN LET n == secondsPassed(elapsed)
                 b == [a EXCEPT !.state.timeLeft = @ - n,
                                !.state.lastTick = advanceAnchor(@, n, now)]
             IN  IF b.state.timeLeft <= 0 THEN _complete(b)
                 ELSE requestAnimationFrame(b)
        ELSE requestAnimationFrame(a)

\* Mutant of tick: the elapsed seconds are taken from totalTime as well.
tickDeductingTotal(a, now) ==
    LET elapsed == now - ToNumber(a.state.lastTick)
    IN  IF elapsed >= 1000
        THEN LET n == secondsPassed(elapsed)
                 b == [a EXCEPT !.state.timeLeft = Max(0, @ - n),
                                !.state.totalTime = Max(0, @ - n),
                                !.state.lastTick = advanceAnchor(@, n, now)]
             IN  IF b.state.timeLeft <= 0 THEN _complete(b)
                 ELSE requestAnimationFrame(b)
        ELSE requestAnimationFrame(a)

\* The rAF callback of start(), run with timestamp now.
tick(a, now) ==
    LET elapsed == now - ToNumber(a.state.lastTick)
    IN  IF elapsed >= 1000
        THEN LET n == secondsPassed(elapsed)
                 b == [a EXCEPT !.state.timeLeft = Max(0, @ - n),
                                !.state.lastTick = advanceAnchor(@, n, now)]
             IN  IF b.state.timeLeft <= 0 THEN _complete(b)
                 ELSE requestAnimationFrame(b)
        ELSE requestAnimationFrame(a)

\* ----------------------------------------------------- per-second ticking
\* The tick handling of the Clock Scheduler: n ticks a second apart, each
\* taking exactly 1 from the remaining seconds (clamped at 0); the tick that
\* reaches 0 completes the countdown and stops the scheduler.
RECURSIVE perSecond(_, _)
perSecond(r, n) ==
    IF n = 0 \/ r.completed THEN r
    ELSE LET t == Max(0, r.timeLeft - 1)
         IN  perSecond([timeLeft |-> t, completed |-> t = 0], n - 1)

\* ------------------------------------------------------- session tracking
\* The session controller's completion handling: the count of completed focus
\* countdowns, the next-mode decision and the auto-advance.

\* Mutant of nextMode: the long break is decided on the count before the
\* increment.
nextModeBeforeIncrement(currentMode, cycles) ==
    IF currentMode = "pomodoro"
    THEN IF (cycles - 1) % 4 = 0 THEN "longBreak" ELSE "shortBreak"
    ELSE "pomodoro"

nextMode(currentMode, cycles) ==
    IF currentMode = "pomodoro"
    THEN IF cycles % 4 = 0 THEN "longBreak" ELSE "shortBreak"
    ELSE "pomodoro"

\* completedCycles after a countdown of the given mode reached zero.
cyclesAfterCompletion(mode, cycles) ==
    IF mode = "pomodoro" THEN cycles + 1 ELSE cycles

\* Mutant of advance: the next mode is selected but the countdown is not started.
advanceWithoutStart(a, cycles, now) ==
    setMode(a, nextMode(a.state.mode, cycles))

\* The auto-advance out of the completed state: reset to the next mode, start.
advance(a, cycles, now) ==
    start(setMode(a, nextMode(a.state.mode, cycles)), now)

\* ------------------------------------------------- App (setInterval version)
\* The older App object: one-second interval ticks in place of frame callbacks.

\* The config of the object literal.
AppConfig == [pomodoro |-> 25, shortBreak |-> 5, longBreak |-> 15]

AbsentStore == [kind |-> "absent", fields |-> <<>>]

\* What localStorage holds under 'orbitConfig' when the page loads: nothing, or
\* a configuration with positive durations.
AppStores ==
    { AbsentStore,
      [kind |-> "object", fields |-> [pomodoro |-> 1, shortBreak |-> 1, longBreak |-> 2]] }

\* The App object before init(), the store it will read, and the interval
\* timers set and not cleared.
App(cfg, saved) ==
    [config    |-> cfg,
     state     |-> [timeLeft |-> 1500, isRunning |-> FALSE, mode |-> "pomodoro",
                    timerId |-> NULL],
     status    |-> "",
     intervals |-> {},
     saved     |-> saved,
     phase     |-> "constructed"]

App_loadConfig(a) ==
    IF a.saved.kind = "object" THEN [a EXCEPT !.config = a.saved.fields] ELSE a

App_pause(a) ==
    [a EXCEPT !.state.isRunning = FALSE,
              !.intervals = IF a.state.timerId # NULL THEN @ \ {a.state.timerId} ELSE @,
              !.state.timerId = NULL]

App_start(a) ==
    IF a.state.timerId # NULL THEN a
    ELSE LET h == NewHandle(a.intervals)
         IN  [a EXCEPT !.state.isRunning = TRUE,
                       !.intervals = @ \cup {h},
                       !.state.timerId = h]

App_toggle(a) == IF a.state.isRunning THEN App_pause(a) ELSE App_start(a)

App_resetTimer(a) ==
    [App_pause(a) EXCEPT !.state.timeLeft = a.config[a.state.mode] * 60,
                         !.status = "READY"]

App_setMode(a, mode) == App_resetTimer([a EXCEPT !.state.mode = mode])

App_complete(a) == [App_pause(a) EXCEPT !.status = "COMPLETED"]

\* The setInterval callback of start().
App_interval(a) ==
    LET b == [a EXCEPT !.state.timeLeft = @ - 1]
    IN  IF b.state.timeLeft <= 0 THEN App_complete(b) ELSE b

App_init(a) == [App_resetTimer(App_loadConfig(a)) EXCEPT !.phase = "ready"]

\* ------------------------------------------------------------------ state
Init ==
    /\ config = DEFAULTS
    /\ state = [timeLeft |-> DEFAULTS.pomodoro * 60,
                totalTime |-> DEFAULTS.pomodoro * 60,
                isRunning |-> FALSE,
                mode |-> "pomodoro",
                animFrameId |-> NULL,
                lastTick |-> NULL]
    /\ status = ""
    /\ pending = {}
    /\ modalHidden = TRUE
    /\ store \in StoreContents
    /\ writable \in WritableStorage
    /\ phase = "constructed"
    /\ clock = 0
    /\ suspends = 0
    /\ lastOp = "constructor"
    /\ t0 = NULL
    /\ startLeft = NULL
    /\ lastNow = NULL
    /\ runMs = 0
    /\ credit = 0
    /\ observed = TRUE
    /\ submitted = [f \in Fields |-> <<>>]
    /\ completedCycles = 0
    /\ autoAdvance = FALSE
    /\ completions = 0
    /\ app = App(AppConfig, AbsentStore)

\* The program's own variables take the values of the object a.
Becomes(a) ==
    /\ config' = a.config
    /\ state' = a.state
    /\ status' = a.status
    /\ pending' = a.pending

\* History of a step that ends in the object a.
\* A start() that took effect opens a running interval; a step that ends a
\* running interval credits its whole seconds; reset() starts a new countdown.
Whole(from, to) == IF to = NULL THEN 0 ELSE (to - from) \div 1000

Track(op, a, isReset) ==
    LET began == ~state.isRunning /\ a.state.isRunning
        ended == state.isRunning /\ ~a.state.isRunning
    IN  /\ lastOp' = op
        /\ t0' = IF began THEN clock
                 ELSE IF a.state.isRunning THEN t0 ELSE NULL
        /\ startLeft' = IF began THEN a.state.timeLeft
                        ELSE IF a.state.isRunning THEN startLeft ELSE NULL
        /\ lastNow' = IF began \/ ~a.state.isRunning THEN NULL
                      ELSE IF op = "frame" THEN clock
                      ELSE lastNow
        /\ runMs' = IF isReset THEN 0 ELSE runMs
        /\ credit' = IF isReset THEN 0
                     ELSE IF ended
                     THEN credit + Whole(t0, IF op = "frame" THEN clock ELSE lastNow)
                     ELSE credit
        /\ observed' = IF isReset THEN TRUE
                       ELSE IF ended /\ op # "frame"
                       THEN observed /\ (IF lastNow = NULL THEN t0 = clock ELSE lastNow = clock)
                       ELSE observed
        /\ completions' = IF isReset THEN 0
                          ELSE IF ended /\ op = "frame" THEN completions + 1
                          ELSE completions

\* ---------------------------------------------------------------- actions
\* init(): _loadConfig, _bindEvents, reset(). Nothing catches a throw.
InitApp ==
    /\ phase = "constructed"
    /\ IF store.kind = "blocked"
       THEN /\ phase' = "aborted"
            /\ Becomes(This)
            /\ Track("init", This, FALSE)
       ELSE /\ phase' = "ready"
            /\ Becomes(reset([This EXCEPT !.config = _loadConfig(config, store)]))
            /\ Track("init", reset([This EXCEPT !.config = _loadConfig(config, store)]), TRUE)
    /\ UNCHANGED <<modalHidden, store, writable, clock, suspends, submitted,
                 completedCycles, autoAdvance, app>>

Start ==
    /\ phase = "ready"
    /\ Becomes(start(This, clock))
    /\ Track("start", start(This, clock), FALSE)
    /\ UNCHANGED <<modalHidden, store, writable, phase, clock, suspends, submitted,
                 completedCycles, autoAdvance, app>>

Pause ==
    /\ phase = "ready"
    /\ Becomes(pause(This))
    /\ Track("pause", pause(This), FALSE)
    /\ UNCHANGED <<modalHidden, store, writable, phase, clock, suspends, submitted,
                 completedCycles, autoAdvance, app>>

Toggle ==
    /\ phase = "ready"
    /\ Becomes(toggle(This, clock))
    /\ Track("toggle", toggle(This, clock), FALSE)
    /\ UNCHANGED <<modalHidden, store, writable, phase, clock, suspends, submitted,
                 completedCycles, autoAdvance, app>>

Reset ==
    /\ phase = "ready"
    /\ Becomes(reset(This))
    /\ Track("reset", reset(This), TRUE)
    /\ UNCHANGED <<modalHidden, store, writable, phase, clock, suspends, submitted,
                 completedCycles, autoAdvance, app>>

SetModeTo(mode) ==
    /\ phase = "ready"
    /\ Becomes(setMode(This, mode))
    /\ Track("setMode", setMode(This, mode), state.mode # mode)
    /\ UNCHANGED <<modalHidden, store, writable, phase, clock, suspends, submitted,
                 completedCycles, autoAdvance, app>>

SetMode == \E mode \in Fields : SetModeTo(mode)

OpenSettings ==
    /\ phase = "ready"
    /\ modalHidden
    /\ modalHidden' = FALSE
    /\ UNCHANGED <<config, state, status, pending, store, writable, phase, clock, suspends,
                   lastOp, t0, startLeft, lastNow, runMs, credit, observed, completions, submitted,
                   completedCycles, autoAdvance, app>>

CloseSettings ==
    /\ phase = "ready"
    /\ ~modalHidden
    /\ modalHidden' = TRUE
    /\ UNCHANGED <<config, state, status, pending, store, writable, phase, clock, suspends,
                   lastOp, t0, startLeft, lastNow, runMs, credit, observed, completions, submitted,
                   completedCycles, autoAdvance, app>>

\* The save-settings click: _saveConfig, hide the modal, reset().
\* localStorage.setItem may throw (quota, private browsing); nothing catches
\* it, so the handler ends inside _saveConfig.
Save(form) ==
    /\ phase = "ready"
    /\ ~modalHidden
    /\ \E saved \in {[This EXCEPT !.config = _saveConfig(form[1], form[2], form[3])]} :
          IF writable
          THEN /\ Becomes(reset(saved))
               /\ Track("save", reset(saved), TRUE)
               /\ store' = [kind |-> "object", fields |-> saved.config]
               /\ modalHidden' = TRUE
          ELSE /\ Becomes(saved)
               /\ Track("saveFailed", saved, FALSE)
               /\ UNCHANGED <<store, modalHidden>>
    /\ submitted' = [pomodoro |-> form[1], shortBreak |-> form[2], longBreak |-> form[3]]
    /\ UNCHANGED <<writable, phase, clock, suspends, completedCycles, autoAdvance, app>>

SaveSettings == \E form \in SettingsForms : Save(form)

\* The save-settings click with any content of the three duration fields.
SaveAnyForm == \E form \in RawInputs \X RawInputs \X RawInputs : Save(form)

\* A keydown event with the given code; isTyping: an input, textarea or select
\* element has the focus.
KeyDownWith(code, isTyping) ==
    /\ phase = "ready"
    /\ LET r == _handleKeyboard(This, modalHidden, code, isTyping, clock)
       IN  /\ Becomes(r.app)
           /\ Track(r.called, r.app, r.isReset)
           /\ modalHidden' = r.hidden
    /\ UNCHANGED <<store, writable, phase, clock, suspends, submitted,
                   completedCycles, autoAdvance, app>>

KeyDown == \E code \in KeyCodes, isTyping \in BOOLEAN : KeyDownWith(code, isTyping)

\* The browser runs a pending frame callback; its timestamp is the current
\* time (a timestamp before the anchor would leave elapsed < 1000 and only
\* reschedule the callback).
Frame ==
    /\ phase = "ready"
    /\ \E id \in pending :
          /\ Becomes(tick([This EXCEPT !.pending = @ \ {id}], clock))
          /\ Track("frame", tick([This EXCEPT !.pending = @ \ {id}], clock), FALSE)
    /\ UNCHANGED <<modalHidden, store, writable, phase, clock, suspends, submitted,
                 completedCycles, autoAdvance, app>>

\* Time passes.
Elapse(d) ==
    /\ clock' = clock + d
    /\ runMs' = IF state.isRunning THEN runMs + d ELSE runMs
    /\ UNCHANGED <<config, state, status, pending, modalHidden, store, writable, phase,
                   lastOp, t0, startLeft, lastNow, credit, observed, completions, submitted,
                   completedCycles, autoAdvance, app>>

Advance ==
    /\ \E d \in TimeSteps :
          /\ clock + d <= MaxClock + suspends * SuspendMs
          /\ Elapse(d)
    /\ UNCHANGED suspends

Suspend ==
    /\ suspends < MaxSuspends
    /\ suspends' = suspends + 1
    /\ Elapse(SuspendMs)

\* A frame callback of the page with session tracking: the callback of Frame,
\* and a completed focus countdown is counted.
FrameSession ==
    /\ phase = "ready"
    /\ \E id \in pending :
          LET after == tick([This EXCEPT !.pending = @ \ {id}], clock)
          IN  /\ Becomes(after)
              /\ Track("frame", after, FALSE)
              /\ completedCycles' =
                    IF state.isRunning /\ ~after.state.isRunning
                    THEN cyclesAfterCompletion(state.mode, completedCycles)
                    ELSE completedCycles
    /\ UNCHANGED <<modalHidden, store, writable, phase, clock, suspends, submitted,
                   autoAdvance, app>>

\* The auto-advance, some time after a countdown completed, with the option on.
AutoAdvance ==
    /\ phase = "ready"
    /\ autoAdvance
    /\ status = "COMPLETED"
    /\ Becomes(advance(This, completedCycles, clock))
    /\ Track("autoAdvance", advance(This, completedCycles, clock), TRUE)
    /\ UNCHANGED <<modalHidden, store, writable, phase, clock, suspends, submitted,
                   completedCycles, autoAdvance, app>>

\* A minute passes without a frame.
SessionMinute ==
    /\ suspends < MaxSessionMinutes
    /\ suspends' = suspends + 1
    /\ Elapse(SuspendMs)

Next ==
    \/ InitApp
    \/ Start
    \/ Pause
    \/ Toggle
    \/ Reset
    \/ SetMode
    \/ OpenSettings
    \/ CloseSettings
    \/ SaveSettings
    \/ Frame
    \/ Advance
    \/ Suspend

Spec == Init /\ [][Next]_vars

\* The same program in a browser session whose storage rejects every write.
InitQuota ==
    /\ config = DEFAULTS
    /\ state = [timeLeft |-> DEFAULTS.pomodoro * 60,
                totalTime |-> DEFAULTS.pomodoro * 60,
                isRunning |-> FALSE,
                mode |-> "pomodoro",
                animFrameId |-> NULL,
                lastTick |-> NULL]
    /\ status = ""
    /\ pending = {}
    /\ modalHidden = TRUE
    /\ store \in StoreContents
    /\ writable = FALSE
    /\ phase = "constructed"
    /\ clock = 0
    /\ suspends = 0
    /\ lastOp = "constructor"
    /\ t0 = NULL
    /\ startLeft = NULL
    /\ lastNow = NULL
    /\ runMs = 0
    /\ credit = 0
    /\ observed = TRUE
    /\ submitted = [f \in Fields |-> <<>>]
    /\ completedCycles = 0
    /\ autoAdvance = FALSE
    /\ completions = 0
    /\ app = App(AppConfig, AbsentStore)

SpecQuota == InitQuota /\ [][Next]_vars

\* The settings form with every content of its duration fields, saved from a
\* page that is idle or running.
NextSettings ==
    \/ InitApp
    \/ Start
    \/ OpenSettings
    \/ CloseSettings
    \/ SaveAnyForm

SpecSettings == Init /\ [][NextSettings]_vars

\* The page with session tracking, the auto-start-breaks option on or off,
\* followed a minute at a time; the user starts, resets, switches the mode and
\* saves settings.
InitSession ==
    /\ config = DEFAULTS
    /\ state = [timeLeft |-> DEFAULTS.pomodoro * 60,
                totalTime |-> DEFAULTS.pomodoro * 60,
                isRunning |-> FALSE,
                mode |-> "pomodoro",
                animFrameId |-> NULL,
                lastTick |-> NULL]
    /\ status = ""
    /\ pending = {}
    /\ modalHidden = TRUE
    /\ store \in StoreContents
    /\ writable \in WritableStorage
    /\ phase = "constructed"
    /\ clock = 0
    /\ suspends = 0
    /\ lastOp = "constructor"
    /\ t0 = NULL
    /\ startLeft = NULL
    /\ lastNow = NULL
    /\ runMs = 0
    /\ credit = 0
    /\ observed = TRUE
    /\ submitted = [f \in Fields |-> <<>>]
    /\ completedCycles = 0
    /\ autoAdvance \in BOOLEAN
    /\ completions = 0
    /\ app = App(AppConfig, AbsentStore)

NextSession ==
    \/ InitApp
    \/ Start
    \/ Reset
    \/ SetMode
    \/ OpenSettings
    \/ SaveSettings
    \/ FrameSession
    \/ AutoAdvance
    \/ SessionMinute

SpecSession == InitSession /\ [][NextSession]_vars

\* The page driven from the keyboard: the timer controls are the shortcuts,
\* the settings are opened and saved with the pointer.
NextKeyboard ==
    \/ InitApp
    \/ KeyDown
    \/ OpenSettings
    \/ CloseSettings
    \/ SaveSettings
    \/ Frame
    \/ Advance

SpecKeyboard == Init /\ [][NextKeyboard]_vars

\* ------------------------------------------------------- the older App page
\* The fields of the FocusTimer page, which the App page does not touch.
focusTimerVars ==
    <<config, state, status, pending, modalHidden, store, writable, phase, clock,
      suspends, lastOp, t0, startLeft, lastNow, runMs, credit, observed, completions,
      submitted, completedCycles, autoAdvance>>

\* DOMContentLoaded: App.init().
AppInit ==
    /\ app.phase = "constructed"
    /\ app' = App_init(app)
    /\ UNCHANGED focusTimerVars

AppStart ==
    /\ app.phase = "ready"
    /\ app' = App_start(app)
    /\ UNCHANGED focusTimerVars

AppPause ==
    /\ app.phase = "ready"
    /\ app' = App_pause(app)
    /\ UNCHANGED focusTimerVars

\* Click on the main button.
AppToggle ==
    /\ app.phase = "ready"
    /\ app' = App_toggle(app)
    /\ UNCHANGED focusTimerVars

\* Click on the reset button.
AppResetTimer ==
    /\ app.phase = "ready"
    /\ app' = App_resetTimer(app)
    /\ UNCHANGED focusTimerVars

\* Click on a mode pill.
AppSetMode ==
    /\ app.phase = "ready"
    /\ \E mode \in Fields : app' = App_setMode(app, mode)
    /\ UNCHANGED focusTimerVars

\* An active interval timer fires, a second after the previous tick.
AppTick ==
    /\ app.phase = "ready"
    /\ app.intervals # {}
    /\ app.state.timeLeft > -MaxUnderrun
    /\ app' = App_interval(app)
    /\ UNCHANGED focusTimerVars

InitAppPage ==
    /\ config = DEFAULTS
    /\ state = [timeLeft |-> DEFAULTS.pomodoro * 60,
                totalTime |-> DEFAULTS.pomodoro * 60,
                isRunning |-> FALSE,
                mode |-> "pomodoro",
                animFrameId |-> NULL,
                lastTick |-> NULL]
    /\ status = ""
    /\ pending = {}
    /\ modalHidden = TRUE
    /\ store = AbsentStore
    /\ writable = TRUE
    /\ phase = "constructed"
    /\ clock = 0
    /\ suspends = 0
    /\ lastOp = "constructor"
    /\ t0 = NULL
    /\ startLeft = NULL
    /\ lastNow = NULL
    /\ runMs = 0
    /\ credit = 0
    /\ observed = TRUE
    /\ submitted = [f \in Fields |-> <<>>]
    /\ completedCycles = 0
    /\ autoAdvance = FALSE
    /\ completions = 0
    /\ \E saved \in AppStores : app = App(AppConfig, saved)

NextApp ==
    \/ AppInit
    \/ AppStart
    \/ AppPause
    \/ AppToggle
    \/ AppResetTimer
    \/ AppSetMode
    \/ AppTick

SpecApp == InitAppPage /\ [][NextApp]_vars

\* ------------------------------------------------ a countdown left alone
\* The page whose user touches the settings and the mode only while the timer
\* is not running, and never pauses or resets: a started countdown is left to
\* the frame callbacks.
InitLive == Init /\ store = AbsentStore

IdleOpenSettings == ~state.isRunning /\ OpenSettings

IdleSaveSettings == ~state.isRunning /\ SaveSettings

IdleSetMode == ~state.isRunning /\ SetMode

Tock ==
    /\ clock + LiveStep <= MaxLiveClock
    /\ Elapse(LiveStep)
    /\ UNCHANGED suspends

NextLive ==
    \/ InitApp
    \/ Start
    \/ IdleOpenSettings
    \/ IdleSaveSettings
    \/ IdleSetMode
    \/ Frame
    \/ Advance
    \/ Tock

\* The time that is certain to pass yet: the steps of Tock left once Advance
\* has taken all of its own.
TimeAhead == LiveStep * ((MaxLiveClock - Max(clock, MaxClock)) \div LiveStep)

\* The browser keeps delivering frame callbacks and time keeps passing.
SpecLive == InitLive /\ [][NextLive]_vars /\ WF_vars(Frame) /\ WF_vars(Tock)

\* ------------------------------------------------------------------ claims
\* Seconds deducted from timeLeft since the last reset().
Deducted == state.totalTime - state.timeLeft

\* C1: while the timer runs and the countdown has not reached zero, the seconds
\* deducted since start() equal floor((t - t0) / 1000), t the timestamp of the
\* latest frame, however the frames were spaced.
C1_DriftFree ==
    (state.isRunning /\ lastNow # NULL /\ state.timeLeft > 0)
        => startLeft - state.timeLeft = (lastNow - t0) \div 1000

\* A frame that came more than two seconds after start(), off the second.
C1_Witness ==
    /\ state.isRunning
    /\ state.timeLeft > 0
    /\ lastNow # NULL
    /\ lastNow - t0 > 2000
    /\ (lastNow - t0) % 1000 # 0
    /\ startLeft - state.timeLeft >= 2

\* C2: while running, lastTick is t0 plus a whole number of seconds, and after
\* a processed frame the remainder now - lastTick is in [0, 1000).
C2_AnchorWholeSeconds ==
    state.isRunning =>
        /\ (state.lastTick - t0) % 1000 = 0
        /\ lastNow # NULL => (0 <= lastNow - state.lastTick /\ lastNow - state.lastTick < 1000)

\* The anchor has moved and a remainder is kept.
C2_Witness ==
    /\ state.isRunning
    /\ lastNow # NULL
    /\ state.lastTick > t0
    /\ lastNow - state.lastTick > 0

\* C3: 0 <= timeLeft <= totalTime in every state after init().
C3_TimeLeftInRange ==
    phase = "ready" => (0 <= state.timeLeft /\ state.timeLeft <= state.totalTime)

\* C4: reset() ends with timeLeft = totalTime = config[mode] * 60, the timer
\* not running and no frame callback pending.
C4_ResetPost ==
    lastOp = "reset" =>
        /\ state.timeLeft = state.totalTime
        /\ state.totalTime = config[state.mode] * 60
        /\ ~state.isRunning
        /\ state.animFrameId = NULL
        /\ pending = {}

\* reset() in a break mode, more than a minute after the page loaded.
C4_Witness ==
    /\ lastOp = "reset"
    /\ state.mode = "longBreak"
    /\ clock > SuspendMs
    /\ status = "READY"

\* C5: start() while running changes nothing, and at most one frame callback
\* is ever pending.
C5_StartIdempotent ==
    /\ [](Cardinality(pending) <= 1)
    /\ [][(lastOp' = "start" /\ state.isRunning)
            => (state' = state /\ pending' = pending /\ status' = status)]_vars

\* start() was called while running, after a frame had been processed.
C5_Witness ==
    /\ lastOp = "start"
    /\ state.isRunning
    /\ lastNow # NULL
    /\ Cardinality(pending) = 1

\* C6 (as stated): the seconds deducted in this countdown equal
\* floor(R / 1000), R the milliseconds spent running. It is read where it is
\* most favourable: right after a frame, in a countdown whose frames have seen
\* all of its running time.
C6_NoTimeLost ==
    (lastOp = "frame" /\ state.isRunning /\ lastNow = clock /\ observed
        /\ state.timeLeft > 0)
        => Deducted = runMs \div 1000

\* C6 (amended): the seconds deducted are the whole seconds of each running
\* interval, counted from its start() to its last frame, summed; they never
\* exceed the time spent running.
C6_WholeSecondsPerInterval ==
    (phase = "ready" /\ state.timeLeft > 0) =>
        /\ Deducted = credit + (IF state.isRunning THEN Whole(t0, lastNow) ELSE 0)
        /\ Deducted * 1000 <= runMs

\* A resumed countdown that has lost part of a second at the pause.
C6_Witness ==
    /\ state.isRunning
    /\ state.timeLeft > 0
    /\ credit >= 1
    /\ observed
    /\ lastNow = clock
    /\ lastNow > t0
    /\ Deducted < runMs \div 1000

\* C7: a frame whose timestamp is less than a second after the last start()
\* leaves timeLeft alone.
C7_NoTickBeforeFullSecond ==
    [][(lastOp' = "frame" /\ state.isRunning /\ clock < t0 + 1000)
         => state'.timeLeft = state.timeLeft]_vars

\* A frame less than a second after a resume, in a countdown under way.
C7_Witness ==
    /\ lastOp = "frame"
    /\ state.isRunning
    /\ lastNow # NULL
    /\ lastNow - t0 < 1000
    /\ credit >= 1
    /\ state.timeLeft = startLeft

\* C8: pause() keeps timeLeft, totalTime, mode and config, ends not running
\* with no anchor and no pending frame callback, and no frame callback changes
\* timeLeft while the timer is not running.
C8_PauseFrame ==
    /\ [](lastOp = "pause" =>
            /\ ~state.isRunning
            /\ state.lastTick = NULL
            /\ state.animFrameId = NULL
            /\ pending = {})
    /\ [][lastOp' = "pause" =>
            /\ state'.timeLeft = state.timeLeft
            /\ state'.totalTime = state.totalTime
            /\ state'.mode = state.mode
            /\ config' = config]_vars
    /\ [][(Frame /\ ~state.isRunning) => state'.timeLeft = state.timeLeft]_vars

\* pause() in a countdown that had deducted time, after a suspension.
C8_Witness ==
    /\ lastOp = "pause"
    /\ status = "PAUSED"
    /\ credit >= 1
    /\ clock > SuspendMs + 1000

\* C9: the frame that brings timeLeft to 0 ends the run in the same step.
C9_CompletesAtZero ==
    [][(lastOp' = "frame" /\ state.isRunning /\ state.timeLeft # 0 /\ state'.timeLeft = 0)
         => /\ ~state'.isRunning
            /\ state'.animFrameId = NULL
            /\ state'.lastTick = NULL
            /\ status' = "COMPLETED"
            /\ pending' = {}]_vars

\* A one-minute countdown completed by a frame.
C9_Witness ==
    /\ lastOp = "frame"
    /\ status = "COMPLETED"
    /\ state.timeLeft = 0
    /\ state.totalTime = 60
    /\ ~state.isRunning

\* C10: start() or toggle() on a completed countdown (timeLeft = 0) changes
\* nothing: the timer does not run and no frame callback is scheduled.
C10_StartRejectedAtZero ==
    [][(lastOp' \in {"start", "toggle"}
          /\ status = "COMPLETED" /\ state.timeLeft = 0 /\ state.totalTime > 0)
         => (state' = state /\ pending' = pending /\ status' = status)]_vars

\* C11: after a save, whatever was typed, every stored duration is an integer
\* within its field's range, and a number typed above the field's maximum is
\* stored as that maximum; the persisted object holds the same durations.
C11_ClampOnSave ==
    lastOp = "save" =>
        /\ \A f \in Fields :
              LET p == parseInt(submitted[f])
              IN  /\ config[f] \in LIMITS[f].min .. LIMITS[f].max
                  /\ (~p.isNaN /\ p.num > LIMITS[f].max) => config[f] = LIMITS[f].max
        /\ store = [kind |-> "object", fields |-> config]

\* Focus 999, short break 61 and long break 120 were saved.
C11_Witness ==
    /\ lastOp = "save"
    /\ submitted = [pomodoro   |-> <<"9", "9", "9">>,
                    shortBreak |-> <<"6", "1">>,
                    longBreak  |-> <<"1", "2", "0">>]
    /\ config = [pomodoro |-> 120, shortBreak |-> 60, longBreak |-> 60]

C13_ConfigInRange ==
    phase = "ready" =>
        \A f \in Fields : config[f] \in LIMITS[f].min .. LIMITS[f].max

\* C14: when the read of the store fails (reading throws, or the content does
\* not parse), init() ends ready with the default configuration and the full
\* focus duration.
C14_ReadFailureFallsBack ==
    (lastOp = "init" /\ store.kind \in {"blocked", "corrupt"}) =>
        /\ phase = "ready"
        /\ config = DEFAULTS
        /\ status = "READY"
        /\ state.timeLeft = DEFAULTS.pomodoro * 60
        /\ state.totalTime = DEFAULTS.pomodoro * 60

\* C15: a save whose write to the store fails ends as a save whose write
\* succeeds: the typed durations in config, the modal closed, the timer reset
\* to the full duration of its mode.
C15_WriteFailureIgnored ==
    lastOp = "saveFailed" =>
        /\ config = _saveConfig(submitted.pomodoro, submitted.shortBreak, submitted.longBreak)
        /\ modalHidden
        /\ ~state.isRunning
        /\ pending = {}
        /\ status = "READY"
        /\ state.timeLeft = state.totalTime
        /\ state.totalTime = config[state.mode] * 60

\* C16: totalTime changes only in a step that runs reset(): init(), the reset
\* control, setMode to another mode, or save-settings. start(), pause(),
\* toggle(), frame callbacks and completion leave it alone.
C16_TotalTimeFixed ==
    [][state'.totalTime # state.totalTime
         => \/ InitApp
            \/ Reset
            \/ SetMode /\ state'.mode # state.mode
            \/ SaveSettings]_vars

\* A countdown that was paused and resumed and has deducted time since.
C16_Witness ==
    /\ state.isRunning
    /\ credit >= 1
    /\ lastNow # NULL
    /\ state.timeLeft < state.totalTime
    /\ state.totalTime = config[state.mode] * 60

\* C19: a key event that arrives while the settings modal is open or an input
\* element has the focus leaves the timer (state, pending frame callback,
\* status, config) as it was; Escape with the modal open closes the modal and
\* no other such key touches the modal.
C19_ShortcutsDisabled ==
    [][\A code \in KeyCodes, isTyping \in BOOLEAN :
          (KeyDownWith(code, isTyping) /\ (~modalHidden \/ isTyping))
              => /\ state' = state
                 /\ pending' = pending
                 /\ status' = status
                 /\ config' = config
                 /\ modalHidden' = (IF code = "Escape" THEN TRUE ELSE modalHidden)]_vars

\* A key was ignored while the timer was running with the settings open.
C19_Witness ==
    /\ lastOp = "keyIgnored"
    /\ ~modalHidden
    /\ state.isRunning
    /\ lastNow # NULL
    /\ Cardinality(pending) = 1

\* C20 (as stated): setMode(m), for every mode m and from every state, ends
\* ready in mode m: not running, no frame callback pending, and
\* timeLeft = totalTime = config[m] * 60.
C20_SetModeAlwaysResets ==
    [][\A m \in Fields :
          SetModeTo(m)
              => /\ state'.mode = m
                 /\ ~state'.isRunning
                 /\ state'.animFrameId = NULL
                 /\ pending' = {}
                 /\ status' = "READY"
                 /\ state'.timeLeft = config[m] * 60
                 /\ state'.totalTime = config[m] * 60]_vars

\* C20 (amended): setMode(m) for a mode other than the current one ends ready
\* in mode m with the full duration of m; setMode of the current mode changes
\* nothing, whatever the timer is doing.
C20_SetModeOtherResets ==
    [][\A m \in Fields :
          SetModeTo(m)
              => IF state.mode = m
                 THEN /\ state' = state
                      /\ pending' = pending
                      /\ status' = status
                      /\ config' = config
                 ELSE /\ state'.mode = m
                      /\ ~state'.isRunning
                      /\ state'.animFrameId = NULL
                      /\ state'.lastTick = NULL
                      /\ pending' = {}
                      /\ status' = "READY"
                      /\ state'.timeLeft = config[m] * 60
                      /\ state'.totalTime = config[m] * 60
                      /\ config' = config]_vars

\* setMode left the timer ready in the long break, with the one-minute
\* durations saved earlier, more than a minute after the page loaded.
C20_Witness ==
    /\ lastOp = "setMode"
    /\ state.mode = "longBreak"
    /\ status = "READY"
    /\ state.timeLeft = 60
    /\ pending = {}
    /\ clock > SuspendMs

\* C17: completedCycles changes only by one, in the frame step that completes
\* a focus countdown, and every such step counts; the auto-advance out of a
\* completed focus countdown selects longBreak exactly when the count (which
\* includes that countdown) is a multiple of 4 and shortBreak otherwise, and
\* out of a completed break it selects focus.
C17_LongBreakCadence ==
    /\ [][completedCycles' # completedCycles
            => /\ completedCycles' = completedCycles + 1
               /\ FrameSession
               /\ state.mode = "pomodoro"
               /\ state.isRunning
               /\ state'.timeLeft = 0
               /\ status' = "COMPLETED"]_vars
    /\ [][(FrameSession /\ state.mode = "pomodoro" /\ state.isRunning /\ ~state'.isRunning)
            => completedCycles' = completedCycles + 1]_vars
    /\ [][AutoAdvance
            => state'.mode =
                 (IF state.mode # "pomodoro" THEN "pomodoro"
                  ELSE IF completedCycles % 4 = 0 THEN "longBreak"
                  ELSE "shortBreak")]_vars

\* The long break that follows the fourth focus countdown was entered by the
\* auto-advance.
C17_Witness ==
    /\ lastOp = "autoAdvance"
    /\ completedCycles = 4
    /\ state.mode = "longBreak"
    /\ state.isRunning

\* C18: with the option on, the auto-advance is possible in every completed
\* state without any input, and it leaves the timer running in another mode
\* with that mode's full duration; with the option off, a completed countdown
\* stays completed until the user starts, resets, switches the mode or saves
\* settings.
C18_AutoAdvance ==
    /\ []((phase = "ready" /\ status = "COMPLETED" /\ autoAdvance) => ENABLED AutoAdvance)
    /\ [][AutoAdvance
            => /\ state'.mode # state.mode
               /\ state'.isRunning
               /\ status' = "RUNNING"
               /\ state'.animFrameId # NULL
               /\ pending' = {state'.animFrameId}
               /\ state'.lastTick = clock
               /\ state'.timeLeft = config[state'.mode] * 60
               /\ state'.totalTime = config[state'.mode] * 60]_vars
    /\ [][(status = "COMPLETED" /\ ~autoAdvance /\ (status' # "COMPLETED" \/ state' # state))
            => (Start \/ Reset \/ SetMode \/ SaveSettings)]_vars

\* A break was started by the auto-advance and its countdown is under way.
C18_Witness ==
    /\ autoAdvance
    /\ completedCycles = 1
    /\ state.mode = "shortBreak"
    /\ state.isRunning
    /\ lastOp = "autoAdvance"
    /\ state.timeLeft = config.shortBreak * 60

\* ------------------------------------------------------------------ C24
\* C24: between handlers the three running indicators agree: isRunning is true
\* exactly when a frame handle is held (animFrameId is not null) and exactly
\* when the tick anchor is set (lastTick is not null).
C24_RunningIndicatorsAgree ==
    /\ state.isRunning = (state.animFrameId # NULL)
    /\ state.isRunning = (state.lastTick # NULL)

\* A paused timer after at least one whole-second tick: start, frame and pause
\* have each written the three fields.
C24_Witness ==
    /\ lastOp = "pause"
    /\ status = "PAUSED"
    /\ ~state.isRunning
    /\ state.animFrameId = NULL
    /\ state.lastTick = NULL
    /\ state.timeLeft < state.totalTime

\* ------------------------------------------------------------------ C25
\* C25: in every state reachable by start, pause, toggle, reset, setMode and
\* frame callbacks the status text is RUNNING exactly when isRunning is true:
\* a paused, ready or completed timer never shows RUNNING.
C25_StatusRunningIffRunning ==
    phase = "ready" => ((status = "RUNNING") = state.isRunning)

\* ------------------------------------------------------------------ C26
\* C26: in every state after init(), at the end of an event handler, totalTime
\* equals config[mode] * 60: whatever changes config or mode also resets the
\* countdown in the same handler.
C26_TotalTimeMatchesConfig ==
    phase = "ready" => state.totalTime = config[state.mode] * 60

\* ------------------------------------------------------------------ C22
\* C22: between two consecutive resets (reset, setMode to another mode, save)
\* _complete() runs at most once, for any interleaving of start, pause, toggle
\* and frame callbacks.
C22_CompleteAtMostOnce == completions <= 1

\* ------------------------------------------------------------------ C27
\* C27: in the setInterval-based App, after any sequence of start, pause,
\* toggle, resetTimer, setMode and interval ticks from a configuration with
\* positive durations, timeLeft is never negative and at most one interval
\* timer is active.
C27_AppNonNegativeOneInterval ==
    /\ app.state.timeLeft >= 0
    /\ Cardinality(app.intervals) <= 1

\* ------------------------------------------------------------------ C21
\* C21: a frame callback that accounts n >= 1 whole seconds at timeLeft >= 1
\* (timeLeft := max(0, timeLeft - n), then the completion check) leaves the
\* same timeLeft and the same completed / not completed outcome as n successive
\* one-second ticks, each taking exactly 1 (clamped at 0), with completion at
\* the first tick that reaches 0.
C21_BatchEqualsPerSecond ==
    [][ (Frame /\ state.isRunning /\ state.timeLeft >= 1
               /\ secondsPassed(clock - ToNumber(state.lastTick)) >= 1)
        => LET n == secondsPassed(clock - ToNumber(state.lastTick))
               r == perSecond([timeLeft |-> state.timeLeft, completed |-> FALSE], n)
           IN  /\ state'.timeLeft = r.timeLeft
               /\ (status' = "COMPLETED" /\ ~state'.isRunning) = r.completed ]_vars

\* One frame has accounted more seconds than were left: the first completion
\* of a countdown, more whole seconds credited than its duration.
C21_Witness ==
    /\ lastOp = "frame"
    /\ status = "COMPLETED"
    /\ state.timeLeft = 0
    /\ state.totalTime > 0
    /\ completions = 1
    /\ credit > state.totalTime

\* ------------------------------------------------------------------ C23
\* C23: a running timer with timeLeft > 0 whose frame callbacks keep being
\* delivered with growing timestamps, and which is not paused, reset, switched
\* or saved over, eventually reaches the completed state (timeLeft == 0,
\* isRunning false). The countdowns followed are those that end within TimeAhead.
C23_EventuallyCompleted ==
    (/\ state.isRunning
     /\ state.timeLeft > 0
     /\ ToNumber(state.lastTick) + state.timeLeft * 1000 <= clock + TimeAhead)
    ~> (status = "COMPLETED" /\ state.timeLeft = 0 /\ ~state.isRunning)

\* A one-minute countdown completed by a frame callback, having been through
\* callbacks that found less than a second elapsed.
C23_Witness ==
    /\ lastOp = "frame"
    /\ status = "COMPLETED"
    /\ state.timeLeft = 0
    /\ ~state.isRunning
    /\ state.totalTime = 60
    /\ credit = 60
    /\ runMs > 60000
====
